---- MODULE Spec2Model ----
(***************************************************************************)
(* Model of the Booster EventStore (src/unnamed/part_000): an entity's      *)
(* snapshot is rebuilt by folding the events recorded after the latest      *)
(* stored snapshot through the reducers registered in the configuration.    *)
(*                                                                          *)
(* The persistence provider (config.provider.events) and the application's  *)
(* reducers are collaborators of the EventStore whose code is not in        *)
(* src/; they are modelled from their interface description.                *)
(***************************************************************************)
EXTENDS Integers, Sequences, FiniteSets, TLC

(* ------------------------------ bounds --------------------------------- *)
\* events the provider's log may hold
MaxEvents == 2
\* public calls (fetchEntitySnapshot / calculateAndStoreEntitySnapshot)
MaxCalls == 2

(* --------------------------- program values ---------------------------- *)
\* new Date(0).toISOString(): timestamps are modelled by their rank
originOfTime == 0

\* JavaScript null as a domain value (entity values are naturals)
Null == -1
\* JavaScript null where an EventEnvelope is expected
NoEnvelope == [kind |-> "null"]
\* the optional `at` argument left out
NoAt == -1

Entities == {"a", "b"}
EntityTypeName == "Cart"

\* config.currentVersionFor(entityTypeName)
currentVersionFor(entityTypeName) == 1

\* config.reducers: event type name -> reducer metadata (class, methodName).
\* "Unknown" events have no entry.  "Renamed" names a method the class does
\* not have, and "Unloaded" has an undefined class (e.g. a circular import).
reducers ==
    [ Set      |-> [class |-> "Cart",      methodName |-> "reduceSet"],
      Inc      |-> [class |-> "Cart",      methodName |-> "reduceInc"],
      Del      |-> [class |-> "Cart",      methodName |-> "reduceDel"],
      Boom     |-> [class |-> "Cart",      methodName |-> "reduceBoom"],
      Renamed  |-> [class |-> "Cart",      methodName |-> "reduceOld"],
      Unloaded |-> [class |-> "undefined", methodName |-> "reduceSet"] ]

EventTypes == DOMAIN reducers \cup {"Unknown"}

\* static methods of the entity class that holds the reducers
CartMethods == {"reduceSet", "reduceInc", "reduceDel", "reduceBoom"}

\* payload carried by an event of each type
PayloadOf(typeName) ==
    CASE typeName = "Set" -> 5
      [] typeName = "Inc" -> 1
      [] OTHER -> 0

(* ------------------------------ state ---------------------------------- *)
VARIABLES
    produced,   \* what upstream logic records in this run: event types, entities
    now,        \* wall clock (rank of the ISO timestamp; 0 is the Unix epoch)
    events,     \* provider: the event log, in storage order
    snapshots,  \* provider: latest stored snapshot per entity, or NoEnvelope
    nCalls,     \* number of public calls made
    last,       \* record of the last public call
    prev,       \* record of the public call before it
    mark,       \* per entity: size of the log at its last calculateAndStore call
    exact,      \* per entity: every calculateAndStore call so far was given
                \* exactly the entity's events recorded since the previous one
    incorporated, \* per entity: requestIDs of the events folded into the stored
                \* snapshot, in the order they were folded
    procs       \* per caller: the public call it has in flight, by await point

vars == <<produced, now, events, snapshots, nCalls, last, prev, mark, exact, incorporated,
          procs>>

NoCall == [op |-> "none"]

(* ----------------------- application reducers -------------------------- *)
\* The reducers the application registered: (eventValue, previous) -> new.
\* reduceBoom throws.
ReducerThrows(method) == method = "reduceBoom"

ReducerValue(method, eventValue, previous) ==
    CASE method = "reduceSet" -> eventValue
      [] method = "reduceInc" -> (IF previous = Null THEN 0 ELSE previous) + eventValue
      [] OTHER -> Null

(* --------------------------- the provider ------------------------------ *)
\* provider.events.forEntitySince: the entity's events recorded strictly
\* after `timestamp`, in creation order (the log is kept in that order).
forEntitySince(log, entityID, timestamp) ==
    SelectSeq(log, LAMBDA e : e.entityID = entityID /\ e.createdAt > timestamp)

\* provider.events.latestEntitySnapshot: the stored snapshot, when `at` is
\* given only if it was created at or before `at`.
latestEntitySnapshot(store, entityID, at) ==
    IF store[entityID] # NoEnvelope /\ at # NoAt /\ store[entityID].createdAt > at
    THEN NoEnvelope
    ELSE store[entityID]

\* provider.events.store: upsert of the snapshot as the latest of its entity
ProviderStore(store, envelopes) ==
    [id \in Entities |->
        IF \E i \in 1..Len(envelopes) : envelopes[i].entityID = id
        THEN envelopes[CHOOSE i \in 1..Len(envelopes) :
                         /\ envelopes[i].entityID = id
                         /\ \A j \in 1..Len(envelopes) :
                               envelopes[j].entityID = id => j <= i]
        ELSE store[id]]

(* --------------------------- the EventStore ---------------------------- *)
NoError == [name |-> "none", origin |-> "none"]

Thrown(name, origin) == [threw |-> TRUE, error |-> [name |-> name, origin |-> origin]]
Returned(v) == [threw |-> FALSE, value |-> v]

\* the registration check left out: the metadata of an unregistered event is
\* undefined, and reading its class throws
reducerForEventUnchecked(eventName) ==
    IF eventName \notin DOMAIN reducers
    THEN Thrown("TypeError", "reducerForEvent")
    ELSE LET reducerMetadata == reducers[eventName] IN
         CASE reducerMetadata.class = "undefined" -> Thrown("TypeError", "reducerForEvent")
           [] reducerMetadata.methodName \notin CartMethods -> Returned("undefined")
           [] OTHER -> Returned(reducerMetadata.methodName)

\* reducerForEvent: the callable registered for the event name.  Returns
\* "undefined" when the class has no such method (a property read of a
\* missing key does not throw).
reducerForEvent(eventName) ==
    IF eventName \notin DOMAIN reducers
    THEN Thrown("InvalidParameterError", "reducerForEvent")
    ELSE LET reducerMetadata == reducers[eventName] IN
         CASE reducerMetadata.class = "undefined" ->
                \* the read throws inside the try, and reading class.name in
                \* the catch block throws again
                Thrown("TypeError", "reducerForEvent")
           [] reducerMetadata.methodName \notin CartMethods ->
                Returned("undefined")
           [] OTHER -> Returned(reducerMetadata.methodName)

\* line 106, the call itself: reducer(eventEnvelope.value, snapshotValue).
\* Calling undefined throws a TypeError there.
Invoke(reducer, eventValue, snapshotValue) ==
    IF reducer.threw THEN reducer
    ELSE IF reducer.value = "undefined" THEN Thrown("TypeError", "entityReducer")
    ELSE IF ReducerThrows(reducer.value) THEN Thrown("ReducerError", "reducer")
    ELSE Returned(ReducerValue(reducer.value, eventValue, snapshotValue))

\* line 106: this.reducerForEvent(typeName)(eventEnvelope.value, snapshotValue)
CallReducer(typeName, eventValue, snapshotValue) ==
    Invoke(reducerForEvent(typeName), eventValue, snapshotValue)

\* line 105
SnapshotValue(latestSnapshot) ==
    IF latestSnapshot # NoEnvelope THEN latestSnapshot.value ELSE Null

\* an envelope that takes its typeName from the event instead of the entity
NewSnapshotTypedAsEvent(eventEnvelope, time, snapshotValue, newEntity) ==
    IF newEntity.threw
    THEN [threw |-> TRUE, error |-> newEntity.error,
          call |-> [event |-> eventEnvelope.requestID, given |-> snapshotValue,
                    threw |-> TRUE, returned |-> Null]]
    ELSE [threw |-> FALSE,
          call |-> [event |-> eventEnvelope.requestID, given |-> snapshotValue,
                    threw |-> FALSE, returned |-> newEntity.value],
          value |-> [version |-> currentVersionFor(eventEnvelope.entityTypeName),
                     kind |-> "snapshot",
                     requestID |-> eventEnvelope.requestID,
                     entityID |-> eventEnvelope.entityID,
                     entityTypeName |-> eventEnvelope.entityTypeName,
                     typeName |-> eventEnvelope.typeName,
                     value |-> newEntity.value,
                     createdAt |-> time,
                     snapshottedEventCreatedAt |-> eventEnvelope.createdAt]]

\* lines 107-123: the envelope built around the reducer's result, or the
\* error rethrown by the catch block; `call` logs the reducer invocation
NewSnapshot(eventEnvelope, time, snapshotValue, newEntity) ==
    IF newEntity.threw
    THEN [threw |-> TRUE, error |-> newEntity.error,
          call |-> [event |-> eventEnvelope.requestID, given |-> snapshotValue,
                    threw |-> TRUE, returned |-> Null]]
    ELSE [threw |-> FALSE,
          call |-> [event |-> eventEnvelope.requestID, given |-> snapshotValue,
                    threw |-> FALSE, returned |-> newEntity.value],
          value |-> [version |-> currentVersionFor(eventEnvelope.entityTypeName),
                     kind |-> "snapshot",
                     requestID |-> eventEnvelope.requestID,
                     entityID |-> eventEnvelope.entityID,
                     entityTypeName |-> eventEnvelope.entityTypeName,
                     typeName |-> eventEnvelope.entityTypeName,
                     value |-> newEntity.value,
                     createdAt |-> time,
                     snapshottedEventCreatedAt |-> eventEnvelope.createdAt]]

\* a fold step that reads no previous value: the reducer always gets null
entityReducerFromNull(latestSnapshot, eventEnvelope, time) ==
    NewSnapshot(eventEnvelope, time, Null,
                CallReducer(eventEnvelope.typeName, eventEnvelope.value, Null))

\* a catch block that logs the error and keeps the accumulator
KeepOnError(latestSnapshot, step) ==
    IF step.threw THEN [threw |-> FALSE, call |-> step.call, value |-> latestSnapshot]
    ELSE step

entityReducerSwallowing(latestSnapshot, eventEnvelope, time) ==
    KeepOnError(latestSnapshot,
        NewSnapshot(eventEnvelope, time, SnapshotValue(latestSnapshot),
                    CallReducer(eventEnvelope.typeName, eventEnvelope.value,
                                SnapshotValue(latestSnapshot))))

\* entityReducer: one fold step.  The catch block logs and rethrows.
entityReducer(latestSnapshot, eventEnvelope, time) ==
    NewSnapshot(eventEnvelope, time, SnapshotValue(latestSnapshot),
                CallReducer(eventEnvelope.typeName, eventEnvelope.value,
                            SnapshotValue(latestSnapshot)))

\* Array.prototype.reduce(this.entityReducer, initial): left to right, the
\* callback's result is the next accumulator, an exception ends it.
\* `calls` logs the reducer invocations made.
RECURSIVE Reduce(_, _, _, _)

ReduceOn(step, rest, time, calls) ==
    IF step.threw
    THEN [threw |-> TRUE, error |-> step.error, calls |-> Append(calls, step.call)]
    ELSE Reduce(rest, step.value, time, Append(calls, step.call))

\* a reduce that walks the array from its last element to its first
ReduceRight(envelopes, accumulator, time, calls) ==
    IF envelopes = << >>
    THEN [threw |-> FALSE, value |-> accumulator, calls |-> calls]
    ELSE ReduceOn(entityReducer(accumulator, envelopes[Len(envelopes)], time),
                  [k \in 1..(Len(envelopes) - 1) |-> envelopes[Len(envelopes) - k]],
                  time, calls)

Reduce(envelopes, accumulator, time, calls) ==
    IF envelopes = << >>
    THEN [threw |-> FALSE, value |-> accumulator, calls |-> calls]
    ELSE ReduceOn(entityReducer(accumulator, Head(envelopes), time),
                  Tail(envelopes), time, calls)

\* a store that keeps a stored snapshot whose cursor is later
storeSnapshotIfNewer(store, snapshot) ==
    IF /\ store[snapshot.entityID] # NoEnvelope
       /\ store[snapshot.entityID].snapshottedEventCreatedAt > snapshot.snapshottedEventCreatedAt
    THEN store
    ELSE ProviderStore(store, <<snapshot>>)

\* storeSnapshot
storeSnapshot(store, snapshot) == ProviderStore(store, <<snapshot>>)

\* loadSnapshot / loadLatestSnapshot
loadSnapshot(store, entityID, at) == latestEntitySnapshot(store, entityID, at)

loadLatestSnapshot(store, entityID) == latestEntitySnapshot(store, entityID, NoAt)

\* an event load that does not pass the entity's identity on
loadEventStreamSinceOfAll(log, entityID, timestamp) ==
    SelectSeq(log, LAMBDA e : e.createdAt > timestamp)

\* loadEventStreamSince
loadEventStreamSince(log, entityID, timestamp) == forEntitySince(log, entityID, timestamp)

\* a cursor that ignores the snapshot: every event is pending again
lastVisitedTimeFromOrigin(snapshotEnvelope) == originOfTime

\* fetchEntitySnapshot, line 28
lastVisitedTime(snapshotEnvelope) ==
    IF snapshotEnvelope # NoEnvelope
    THEN snapshotEnvelope.snapshottedEventCreatedAt
    ELSE originOfTime

\* a fetch that writes the snapshot it folded back to the provider
fetchEntitySnapshotWritingBack(store, log, entityID, at, time) ==
    LET snapshotEnvelope == loadSnapshot(store, entityID, at)
        pendingEvents == loadEventStreamSince(log, entityID, lastVisitedTime(snapshotEnvelope))
        folded == Reduce(pendingEvents, snapshotEnvelope, time, << >>)
        writes == Len(pendingEvents) > 0 /\ ~folded.threw
    IN  [ base |-> snapshotEnvelope,
          pending |-> pendingEvents,
          threw |-> Len(pendingEvents) > 0 /\ folded.threw,
          error |-> IF Len(pendingEvents) > 0 /\ folded.threw THEN folded.error ELSE NoError,
          result |-> IF Len(pendingEvents) <= 0 THEN snapshotEnvelope
                     ELSE IF folded.threw THEN NoEnvelope ELSE folded.value,
          calls |-> IF Len(pendingEvents) <= 0 THEN << >> ELSE folded.calls,
          stored |-> IF writes THEN <<folded.value>> ELSE << >>,
          store |-> IF writes THEN storeSnapshot(store, folded.value) ELSE store ]

\* the pending events, cut at the time bound when one is given
UpTo(pendingEvents, at) ==
    IF at = NoAt THEN pendingEvents
    ELSE SelectSeq(pendingEvents, LAMBDA e : e.createdAt <= at)

\* a fetch that bounds the event load by `at` as well
fetchEntitySnapshotUpTo(store, log, entityID, at, time) ==
    LET snapshotEnvelope == loadSnapshot(store, entityID, at)
        pendingEvents == UpTo(loadEventStreamSince(log, entityID,
                                                   lastVisitedTime(snapshotEnvelope)), at)
        folded == Reduce(pendingEvents, snapshotEnvelope, time, << >>)
    IN  [ base |-> snapshotEnvelope,
          pending |-> pendingEvents,
          threw |-> Len(pendingEvents) > 0 /\ folded.threw,
          error |-> IF Len(pendingEvents) > 0 /\ folded.threw THEN folded.error ELSE NoError,
          result |-> IF Len(pendingEvents) <= 0 THEN snapshotEnvelope
                     ELSE IF folded.threw THEN NoEnvelope ELSE folded.value,
          calls |-> IF Len(pendingEvents) <= 0 THEN << >> ELSE folded.calls,
          stored |-> << >>,
          store |-> store ]

\* the loaded snapshot, stamped again with the time of the call
Restamped(snapshotEnvelope, time) ==
    IF snapshotEnvelope = NoEnvelope THEN NoEnvelope
    ELSE [snapshotEnvelope EXCEPT !.createdAt = time + 1]

\* a fetch that builds a new envelope even when nothing is pending
fetchEntitySnapshotRestamping(store, log, entityID, at, time) ==
    LET snapshotEnvelope == loadSnapshot(store, entityID, at)
        pendingEvents == loadEventStreamSince(log, entityID, lastVisitedTime(snapshotEnvelope))
        folded == Reduce(pendingEvents, snapshotEnvelope, time, << >>)
    IN  [ base |-> snapshotEnvelope,
          pending |-> pendingEvents,
          threw |-> Len(pendingEvents) > 0 /\ folded.threw,
          error |-> IF Len(pendingEvents) > 0 /\ folded.threw THEN folded.error ELSE NoError,
          result |-> IF Len(pendingEvents) <= 0 THEN Restamped(snapshotEnvelope, time)
                     ELSE IF folded.threw THEN NoEnvelope ELSE folded.value,
          calls |-> IF Len(pendingEvents) <= 0 THEN << >> ELSE folded.calls,
          stored |-> << >>,
          store |-> store ]

\* fetchEntitySnapshot: what the call does, as a record of its outcome and
\* of the provider state it leaves
fetchEntitySnapshot(store, log, entityID, at, time) ==
    LET snapshotEnvelope == loadSnapshot(store, entityID, at)
        pendingEvents == loadEventStreamSince(log, entityID, lastVisitedTime(snapshotEnvelope))
        folded == Reduce(pendingEvents, snapshotEnvelope, time, << >>)
    IN  [ base |-> snapshotEnvelope,
          pending |-> pendingEvents,
          threw |-> Len(pendingEvents) > 0 /\ folded.threw,
          error |-> IF Len(pendingEvents) > 0 /\ folded.threw THEN folded.error ELSE NoError,
          result |-> IF Len(pendingEvents) <= 0 THEN snapshotEnvelope
                     ELSE IF folded.threw THEN NoEnvelope ELSE folded.value,
          calls |-> IF Len(pendingEvents) <= 0 THEN << >> ELSE folded.calls,
          stored |-> << >>,
          store |-> store ]

\* a call that stores only an envelope that carries an entity value
calculateAndStoreEntitySnapshotSkippingNull(store, entityID, pendingEnvelopes, time) ==
    LET latestSnapshotEnvelope == loadLatestSnapshot(store, entityID)
        folded == Reduce(pendingEnvelopes, latestSnapshotEnvelope, time, << >>)
        newEntitySnapshot == IF folded.threw THEN NoEnvelope ELSE folded.value
        writes == /\ ~folded.threw
                  /\ newEntitySnapshot # NoEnvelope
                  /\ newEntitySnapshot.value # Null
    IN  [ base |-> latestSnapshotEnvelope,
          pending |-> pendingEnvelopes,
          threw |-> folded.threw,
          error |-> IF folded.threw THEN folded.error ELSE NoError,
          result |-> IF folded.threw THEN NoEnvelope
                     ELSE IF writes THEN newEntitySnapshot
                     ELSE latestSnapshotEnvelope,
          calls |-> folded.calls,
          stored |-> IF writes THEN <<newEntitySnapshot>> ELSE << >>,
          store |-> IF writes THEN storeSnapshot(store, newEntitySnapshot) ELSE store ]

\* calculateAndStoreEntitySnapshot
calculateAndStoreEntitySnapshot(store, entityID, pendingEnvelopes, time) ==
    LET latestSnapshotEnvelope == loadLatestSnapshot(store, entityID)
        folded == Reduce(pendingEnvelopes, latestSnapshotEnvelope, time, << >>)
        newEntitySnapshot == IF folded.threw THEN NoEnvelope ELSE folded.value
        writes == ~folded.threw /\ newEntitySnapshot # NoEnvelope
    IN  [ base |-> latestSnapshotEnvelope,
          pending |-> pendingEnvelopes,
          threw |-> folded.threw,
          error |-> IF folded.threw THEN folded.error ELSE NoError,
          result |-> IF folded.threw THEN NoEnvelope
                     ELSE IF newEntitySnapshot = NoEnvelope THEN latestSnapshotEnvelope
                     ELSE newEntitySnapshot,
          calls |-> folded.calls,
          stored |-> IF writes THEN <<newEntitySnapshot>> ELSE << >>,
          store |-> IF writes THEN storeSnapshot(store, newEntitySnapshot) ELSE store ]

(* ------------------------------ actions -------------------------------- *)
\* the entity's events in the log, in storage order
EventsOf(log, entityID) == SelectSeq(log, LAMBDA e : e.entityID = entityID)

\* the entity's events recorded after the first n entries of the log
EventsAfter(log, entityID, n) ==
    EventsOf(SubSeq(log, n + 1, Len(log)), entityID)

\* lists a caller may pass as pendingEnvelopes: the entity's newest k stored
\* events, in storage order (the caller folds what it has just written)
PendingLists(log, entityID) ==
    LET mine == EventsOf(log, entityID) IN
    { SubSeq(mine, Len(mine) + 1 - k, Len(mine)) : k \in 0..Len(mine) }

\* The runs explored: one entity whose events are of two types (a reducer
\* that works next to one that works or fails in each of the ways the code
\* distinguishes), and two entities receiving the same type of event.
Produced ==
    { [types |-> ts, entities |-> {"a"}] :
        ts \in { {"Set", "Inc"}, {"Inc", "Del"}, {"Inc", "Boom"}, {"Inc", "Unknown"},
                 {"Inc", "Renamed"}, {"Inc", "Unloaded"} } }
    \cup { [types |-> {"Inc"}, entities |-> Entities] }

\* callers that may have a public call in flight at the same time
Callers == {1, 2}

Idle == [pc |-> "idle"]

Init ==
    /\ produced \in Produced
    /\ now = 1
    /\ events = << >>
    /\ snapshots = [id \in Entities |-> NoEnvelope]
    /\ nCalls = 0
    /\ last = NoCall
    /\ prev = NoCall
    /\ mark = [id \in Entities |-> 0]
    /\ exact = [id \in Entities |-> TRUE]
    /\ incorporated = [id \in Entities |-> << >>]
    /\ procs = [p \in Callers |-> Idle]

\* upstream logic records an event (provider.events.store of an event); the
\* clock has either not moved since the last timestamp taken, or it has
AppendEvent(entityID, typeName, elapsed) ==
    /\ Len(events) < MaxEvents
    /\ now' = now + elapsed
    /\ events' = Append(events,
                    [kind |-> "event",
                     entityTypeName |-> EntityTypeName,
                     entityID |-> entityID,
                     typeName |-> typeName,
                     value |-> PayloadOf(typeName),
                     createdAt |-> now',
                     requestID |-> Len(events) + 1])
    /\ UNCHANGED <<produced, snapshots, nCalls, last, prev, mark, exact, incorporated, procs>>

CallRecord(op, entityID, at, out) ==
    [op |-> op, entityID |-> entityID, bounded |-> at # NoAt, at |-> at,
     base |-> out.base, pending |-> out.pending, threw |-> out.threw,
     error |-> out.error, result |-> out.result, calls |-> out.calls,
     stored |-> out.stored,
     before |-> snapshots[entityID], logSize |-> Len(events)]

\* what is kept of the call before the last one
Brief(call) ==
    IF call.op = "none" THEN call
    ELSE [op |-> call.op, entityID |-> call.entityID, pending |-> call.pending,
          threw |-> call.threw, base |-> call.base, logSize |-> call.logSize]

Fetch(entityID, at) ==
    /\ nCalls < MaxCalls
    /\ LET out == fetchEntitySnapshot(snapshots, events, entityID, at, now) IN
        /\ snapshots' = out.store
        /\ last' = CallRecord("fetch", entityID, at, out)
    /\ prev' = Brief(last)
    /\ nCalls' = nCalls + 1
    /\ UNCHANGED <<produced, now, events, mark, exact, incorporated, procs>>

RequestIDs(envelopes) == [k \in 1..Len(envelopes) |-> envelopes[k].requestID]

Calculate(entityID, pendingEnvelopes) ==
    /\ nCalls < MaxCalls
    /\ LET out == calculateAndStoreEntitySnapshot(snapshots, entityID, pendingEnvelopes, now) IN
        /\ snapshots' = out.store
        /\ last' = CallRecord("calculate", entityID, NoAt, out)
        /\ incorporated' = [incorporated EXCEPT ![entityID] =
                        IF Len(out.stored) = 0 THEN @
                        ELSE (IF out.base = NoEnvelope THEN << >> ELSE @) \o RequestIDs(pendingEnvelopes)]
    /\ prev' = Brief(last)
    /\ nCalls' = nCalls + 1
    /\ mark' = [mark EXCEPT ![entityID] = Len(events)]
    /\ exact' = [exact EXCEPT ![entityID] =
                    @ /\ pendingEnvelopes = EventsAfter(events, entityID, mark[entityID])]
    /\ UNCHANGED <<produced, now, events, procs>>

Next ==
    \/ \E id \in produced.entities, t \in produced.types, d \in {0, 1} : AppendEvent(id, t, d)
    \/ \E id \in produced.entities, at \in {NoAt} \cup (1..now) : Fetch(id, at)
    \/ \E id \in produced.entities : \E p \in PendingLists(events, id) : Calculate(id, p)

Spec == Init /\ [][Next]_vars

(* ------------------- the calls, await point by await point ------------- *)
\* Each public call runs from one await to the next without interruption:
\* fetchEntitySnapshot awaits the snapshot load (line 25) and the event load
\* (line 30); calculateAndStoreEntitySnapshot awaits the snapshot load (line
\* 57) and the store (line 73).  A provider call resolves or rejects.

\* a public call has been made: it is about to await its snapshot load
Started(op, entityID, at, pendingEnvelopes, store, log) ==
    [pc |-> "loadSnapshot", op |-> op, entityID |-> entityID, at |-> at,
     pending |-> pendingEnvelopes, base |-> NoEnvelope, result |-> NoEnvelope,
     threw |-> FALSE, error |-> NoError, calls |-> << >>, toStore |-> << >>,
     snapshotLoads |-> 0, eventLoads |-> 0, stores |-> 0,
     startSnapshot |-> store[entityID], loadLog |-> 0,
     sinceCursor |-> pendingEnvelopes = forEntitySince(log, entityID,
                                                       lastVisitedTime(store[entityID])),
     foldTime |-> 0, rejected |-> "none", concurrent |-> FALSE]

\* a call that awaits the rejected provider call again
RejectedRetrying(proc, operation) == [proc EXCEPT !.rejected = "none"]

\* a call that never settles once a provider call rejected
RejectedWaiting(proc, operation) == [proc EXCEPT !.pc = "waiting"]

\* the awaited provider call rejected: the error leaves the public call
Rejected(proc, operation) ==
    [proc EXCEPT !.pc = "done", !.threw = TRUE, !.result = NoEnvelope,
                 !.error = [name |-> "ProviderError", origin |-> operation]]

\* fetchEntitySnapshot, line 25 resolved: the call holds the snapshot
SnapshotLoaded(proc, snapshotEnvelope) ==
    [proc EXCEPT !.pc = "loadEvents", !.base = snapshotEnvelope]

\* fetchEntitySnapshot, lines 30-45: the event load resolved, and the fold
\* runs to the return without another await
EventsLoaded(proc, out, time, logSize) ==
    [proc EXCEPT !.pc = "done", !.pending = out.pending, !.threw = out.threw,
                 !.error = out.error, !.result = out.result, !.calls = out.calls,
                 !.loadLog = logSize, !.foldTime = time]

\* calculateAndStoreEntitySnapshot, lines 57-73: the snapshot load resolved
\* and the fold ran; the call returns, throws, or awaits the store
Folded(proc, out, time) ==
    [proc EXCEPT !.pc = IF Len(out.stored) > 0 THEN "store" ELSE "done",
                 !.base = out.base, !.threw = out.threw, !.error = out.error,
                 !.result = IF Len(out.stored) > 0 THEN NoEnvelope ELSE out.result,
                 !.calls = out.calls, !.toStore = out.stored, !.foldTime = time]

\* calculateAndStoreEntitySnapshot, lines 73-75: the store resolved
Stored(proc) == [proc EXCEPT !.pc = "done", !.result = proc.toStore[1]]

\* the provider as the call sees it once it holds a snapshot
Holding(store, entityID, snapshotEnvelope) == [store EXCEPT ![entityID] = snapshotEnvelope]

\* of two idle callers the first calls first: the callers are interchangeable
MayCall(p) == procs[p] = Idle /\ \A q \in Callers : q < p => procs[q] # Idle

InFlight(proc) == proc.pc \notin {"idle", "done"}

\* the callers once p has made its call: calls in flight together are concurrent
Calling(p, call) ==
    [q \in Callers |->
        IF q = p
        THEN [call EXCEPT !.concurrent = \E r \in Callers : InFlight(procs[r])]
        ELSE IF InFlight(procs[q]) THEN [procs[q] EXCEPT !.concurrent = TRUE]
        ELSE procs[q]]

StartFetch(p, entityID, at) ==
    /\ MayCall(p)
    /\ procs' = Calling(p, Started("fetch", entityID, at, << >>, snapshots, events))
    /\ UNCHANGED <<produced, now, events, snapshots, nCalls, last, prev, mark, exact,
                   incorporated>>

StartCalculate(p, entityID, pendingEnvelopes) ==
    /\ MayCall(p)
    /\ procs' = Calling(p, Started("calculate", entityID, NoAt, pendingEnvelopes,
                                   snapshots, events))
    /\ UNCHANGED <<produced, now, events, snapshots, nCalls, last, prev, mark, exact,
                   incorporated>>

\* the snapshot load of either operation settles
LoadSnapshotStep(p, resolves) ==
    /\ procs[p].pc = "loadSnapshot"
    /\ procs' = [procs EXCEPT ![p] =
          IF ~resolves
          THEN Rejected([@ EXCEPT !.snapshotLoads = @ + 1,
                                  !.rejected = "latestEntitySnapshot"],
                        "latestEntitySnapshot")
          ELSE IF @.op = "fetch"
          THEN SnapshotLoaded([@ EXCEPT !.snapshotLoads = @ + 1],
                              loadSnapshot(snapshots, @.entityID, @.at))
          ELSE Folded([@ EXCEPT !.snapshotLoads = @ + 1],
                      calculateAndStoreEntitySnapshot(snapshots, @.entityID, @.pending, now),
                      now)]
    /\ UNCHANGED <<produced, now, events, snapshots, nCalls, last, prev, mark, exact,
                   incorporated>>

\* the event load of fetchEntitySnapshot settles
LoadEventsStep(p, resolves) ==
    /\ procs[p].pc = "loadEvents"
    /\ procs' = [procs EXCEPT ![p] =
          IF ~resolves
          THEN Rejected([@ EXCEPT !.eventLoads = @ + 1, !.rejected = "forEntitySince"],
                        "forEntitySince")
          ELSE EventsLoaded([@ EXCEPT !.eventLoads = @ + 1],
                            fetchEntitySnapshot(Holding(snapshots, @.entityID, @.base),
                                                events, @.entityID, NoAt, now),
                            now, Len(events))]
    /\ UNCHANGED <<produced, now, events, snapshots, nCalls, last, prev, mark, exact,
                   incorporated>>

\* the store of calculateAndStoreEntitySnapshot settles
StoreStep(p, resolves) ==
    /\ procs[p].pc = "store"
    /\ procs' = [procs EXCEPT ![p] =
          IF ~resolves
          THEN Rejected([@ EXCEPT !.stores = @ + 1, !.rejected = "store"], "store")
          ELSE Stored([@ EXCEPT !.stores = @ + 1])]
    /\ snapshots' = IF resolves THEN storeSnapshot(snapshots, procs[p].toStore[1])
                    ELSE snapshots
    /\ UNCHANGED <<produced, now, events, nCalls, last, prev, mark, exact, incorporated>>

\* one step of a caller's call
Settle(p) ==
    \E resolves \in BOOLEAN :
        \/ LoadSnapshotStep(p, resolves)
        \/ LoadEventsStep(p, resolves)
        \/ StoreStep(p, resolves)

\* The concurrent runs explored: two entities receiving increments, or one
\* entity receiving increments next to events that clear the entity or fail.
\* The concurrent fetches are the ones without a time bound.
ProducedConcurrently ==
    { [types |-> {"Inc"}, entities |-> Entities] }
    \cup { [types |-> ts, entities |-> {"a"}] : ts \in { {"Inc", "Del"}, {"Inc", "Boom"} } }

InitConcurrent ==
    /\ produced \in ProducedConcurrently
    /\ now = 1
    /\ events = << >>
    /\ snapshots = [id \in Entities |-> NoEnvelope]
    /\ nCalls = 0
    /\ last = NoCall
    /\ prev = NoCall
    /\ mark = [id \in Entities |-> 0]
    /\ exact = [id \in Entities |-> TRUE]
    /\ incorporated = [id \in Entities |-> << >>]
    /\ procs = [p \in Callers |-> Idle]

\* events are recorded for as long as a call can see them
Watched == \E p \in Callers : procs[p].pc # "done"

NextConcurrent ==
    \/ \E id \in produced.entities, t \in produced.types, d \in {0, 1} :
          Watched /\ AppendEvent(id, t, d)
    \/ \E p \in Callers, id \in produced.entities : StartFetch(p, id, NoAt)
    \/ \E p \in Callers, id \in produced.entities :
          \E pe \in PendingLists(events, id) : StartCalculate(p, id, pe)
    \/ \E p \in Callers : Settle(p)

SpecConcurrent == InitConcurrent /\ [][NextConcurrent]_vars

\* the runs in which termination is checked: one entity, with a reducer that
\* works and one that fails
InitFair == InitConcurrent /\ produced = [types |-> {"Inc", "Boom"}, entities |-> {"a"}]

\* every provider call settles, and the continuation of an await runs
SpecFair == InitFair /\ [][NextConcurrent]_vars /\ \A p \in Callers : WF_vars(Settle(p))

(* ------------------------- reference definitions ----------------------- *)
\* event types whose registered reducer resolves and returns
Working == {"Set", "Inc", "Del"}

AllWorking(envelopes) == \A k \in 1..Len(envelopes) : envelopes[k].typeName \in Working

\* what the registered reducer of a working event type computes
Apply(envelope, value) ==
    CASE envelope.typeName = "Set" -> envelope.value
      [] envelope.typeName = "Inc" -> (IF value = Null THEN 0 ELSE value) + envelope.value
      [] OTHER -> Null

\* the left fold of a list of events of working types, from a start value
RECURSIVE LeftFold(_, _)
LeftFold(envelopes, value) ==
    IF envelopes = << >> THEN value
    ELSE LeftFold(Tail(envelopes), Apply(Head(envelopes), value))

Reverse(seq) == [k \in 1..Len(seq) |-> seq[Len(seq) + 1 - k]]

\* the domain value of an envelope, null for no envelope
ValueOf(envelope) == IF envelope = NoEnvelope THEN Null ELSE envelope.value

\* the entity's events the provider knew when the last call was made
KnownTo(call) == EventsOf(SubSeq(events, 1, call.logSize), call.entityID)

(* ------------------------------- claims -------------------------------- *)
\* C1: read/write consistency.  For an entity with N >= 1 stored events and
\* no stored snapshot, fetchEntitySnapshot returns the left fold of all N
\* events in creation order from a null accumulator; and when
\* calculateAndStoreEntitySnapshot was called with those N events instead, a
\* following fetchEntitySnapshot with no new events returns the same value.
C1_ReadWriteConsistency ==
    /\ ( /\ last.op = "fetch"
         /\ last.before = NoEnvelope
         /\ Len(KnownTo(last)) >= 1
         /\ AllWorking(KnownTo(last)) )
       => /\ ~last.threw
          /\ last.result # NoEnvelope
          /\ last.result.value = LeftFold(KnownTo(last), Null)
    /\ ( /\ last.op = "fetch"
         /\ prev.op = "calculate"
         /\ prev.entityID = last.entityID
         /\ prev.base = NoEnvelope
         /\ ~prev.threw
         /\ prev.logSize = last.logSize
         /\ Len(prev.pending) >= 1
         /\ prev.pending = KnownTo(last) )
       => /\ ~last.threw
          /\ last.result # NoEnvelope
          /\ last.before # NoEnvelope
          /\ last.result.value = last.before.value
          /\ last.result.value = LeftFold(KnownTo(last), Null)

\* C1 witness: two order-sensitive events were stored by the write path and
\* then fetched with nothing new
C1_Witness ==
    /\ last.op = "fetch"
    /\ prev.op = "calculate"
    /\ prev.entityID = last.entityID
    /\ prev.base = NoEnvelope
    /\ ~prev.threw
    /\ prev.logSize = last.logSize
    /\ prev.pending = KnownTo(last)
    /\ Len(prev.pending) = 2
    /\ prev.pending[1].typeName = "Set"
    /\ prev.pending[2].typeName = "Inc"
    /\ ~last.threw
    /\ last.result.value = 6

\* C2: cursor correctness.  With a snapshot of cursor t stored, a
\* fetchEntitySnapshot without `at` passes only events created after t to
\* reducers, folds no event twice, and folds no event that the stored
\* snapshot already incorporates.
C2_CursorCorrectness ==
    ( /\ last.op = "fetch"
      /\ ~last.bounded
      /\ last.before # NoEnvelope )
    => /\ \A i \in 1..Len(last.calls) :
            events[last.calls[i].event].createdAt > last.before.snapshottedEventCreatedAt
       /\ \A i, j \in 1..Len(last.calls) :
            i # j => last.calls[i].event # last.calls[j].event
       /\ \A i \in 1..Len(last.calls) :
            \A k \in 1..Len(incorporated[last.entityID]) :
                last.calls[i].event # incorporated[last.entityID][k]

\* C2 witness: a fetch folded a new event on top of a stored snapshot that
\* incorporates an earlier one
C2_Witness ==
    /\ last.op = "fetch"
    /\ ~last.bounded
    /\ last.before # NoEnvelope
    /\ Len(incorporated[last.entityID]) >= 1
    /\ Len(last.calls) >= 1
    /\ ~last.threw


\* C3: idempotence of the write path.  Two calculateAndStoreEntitySnapshot
\* calls in sequence for the same entity with the same non-empty pending
\* list, no event arriving in between: the value persisted by the second
\* call equals the value persisted by the first.
C3_WriteIdempotent ==
    ( /\ last.op = "calculate"
      /\ prev.op = "calculate"
      /\ prev.entityID = last.entityID
      /\ prev.pending = last.pending
      /\ Len(last.pending) >= 1
      /\ prev.logSize = last.logSize
      /\ ~prev.threw
      /\ ~last.threw )
    => /\ snapshots[last.entityID] # NoEnvelope
       /\ last.before # NoEnvelope
       /\ snapshots[last.entityID].value = last.before.value

\* C4: empty fold.  calculateAndStoreEntitySnapshot with an empty list
\* returns the stored snapshot unchanged (null when there is none, not an
\* error) and makes no store call, with or without a stored snapshot.
C4_EmptyFoldNoStore ==
    ( /\ last.op = "calculate"
      /\ last.pending = << >> )
    => /\ ~last.threw
       /\ last.result = last.before
       /\ last.stored = << >>

\* the k-th pending event of a call is of one of the given types, and the
\* events before it are of working types
FailsAt(call, k, types) ==
    /\ k \in 1..Len(call.pending)
    /\ call.pending[k].typeName \in types
    /\ \A j \in 1..(k - 1) : call.pending[j].typeName \in Working

\* event types with no entry in the reducer registry
Unregistered == EventTypes \ DOMAIN reducers

\* C5: missing reducer.  When an event to be folded has a type with no
\* registry entry, fetchEntitySnapshot and calculateAndStoreEntitySnapshot
\* fail with the missing-reducer error, return no snapshot and make no store
\* call: the stored snapshot is unchanged, also when earlier events of the
\* list were folded.
C5_MissingReducer ==
    ( /\ last.op \in {"fetch", "calculate"}
      /\ \E k \in 1..Len(last.pending) : FailsAt(last, k, Unregistered) )
    => /\ last.threw
       /\ last.error = [name |-> "InvalidParameterError", origin |-> "reducerForEvent"]
       /\ last.result = NoEnvelope
       /\ last.stored = << >>
       /\ snapshots[last.entityID] = last.before

\* C5 witness: a calculateAndStoreEntitySnapshot call met an unregistered
\* event after folding a registered one
C5_Witness ==
    /\ last.op = "calculate"
    /\ FailsAt(last, 2, Unregistered)
    /\ Len(last.calls) = 2
    /\ ~last.calls[1].threw
    /\ last.threw

\* C6: ordering.  Both operations fold as a strict left fold in list order:
\* the i-th reducer call is for the i-th pending event, the first call is
\* given the prior snapshot's value (null without one), each later call is
\* given what the previous call returned, and the result carries what the
\* last call returned.  A "set" event followed by a later "increment" event
\* yields increment(set(prior)), which is not the fold of the reversed list.
C6_LeftFoldInOrder ==
    last.op \in {"fetch", "calculate"} =>
       /\ Len(last.calls) <= Len(last.pending)
       /\ \A i \in 1..Len(last.calls) :
            /\ last.calls[i].event = last.pending[i].requestID
            /\ last.calls[i].given =
                  (IF i = 1 THEN ValueOf(last.base) ELSE last.calls[i - 1].returned)
            /\ i < Len(last.calls) => ~last.calls[i].threw
            /\ ~last.calls[i].threw =>
                  last.calls[i].returned = Apply(last.pending[i], last.calls[i].given)
       /\ (~last.threw /\ Len(last.pending) >= 1) =>
            /\ Len(last.calls) = Len(last.pending)
            /\ last.result.value = last.calls[Len(last.calls)].returned
       /\ ( /\ ~last.threw
            /\ Len(last.pending) = 2
            /\ last.pending[1].typeName = "Set"
            /\ last.pending[2].typeName = "Inc"
            /\ last.pending[1].createdAt < last.pending[2].createdAt ) =>
            /\ last.result.value =
                  Apply(last.pending[2], Apply(last.pending[1], ValueOf(last.base)))
            /\ last.result.value # LeftFold(Reverse(last.pending), ValueOf(last.base))

\* C6 witness: a "set" event and a later "increment" event were folded
C6_Witness ==
    /\ last.op \in {"fetch", "calculate"}
    /\ ~last.threw
    /\ Len(last.pending) = 2
    /\ last.pending[1].typeName = "Set"
    /\ last.pending[2].typeName = "Inc"
    /\ last.pending[1].createdAt < last.pending[2].createdAt
    /\ last.result.value = 6
    /\ LeftFold(Reverse(last.pending), ValueOf(last.base)) = 5

\* C7: fetchEntitySnapshot is read-only.  No fetchEntitySnapshot call, folding
\* or failing, makes a store call or changes the stored snapshots or events;
\* the stored snapshots change only in a calculateAndStoreEntitySnapshot call.
C7_FetchReadOnly ==
    [][ /\ (nCalls' # nCalls /\ last'.op = "fetch") =>
             /\ snapshots' = snapshots
             /\ events' = events
             /\ last'.stored = << >>
        /\ (snapshots' # snapshots) =>
             /\ nCalls' # nCalls
             /\ last'.op = "calculate"
             /\ Len(last'.stored) = 1 ]_vars

\* C7 witness: a fetch folded pending events onto a stored snapshot and
\* returned a new envelope, the stored one being still in place
C7_Witness ==
    /\ last.op = "fetch"
    /\ ~last.threw
    /\ Len(last.calls) >= 1
    /\ last.before # NoEnvelope
    /\ last.result # last.before
    /\ snapshots[last.entityID] = last.before

\* registered event types whose reducer resolves and raises when called
Raising == {t \in DOMAIN reducers : ReducerThrows(reducers[t].methodName)}

\* C8: reducer failure.  When the reducer of the k-th event raises, the fold
\* stops there (k reducer calls, none for later events), the call raises
\* that error and returns no snapshot, and no store call is made: the stored
\* snapshot is the one from before the call.
C8_ReducerFailure ==
    last.op \in {"fetch", "calculate"} =>
       \A k \in 1..Len(last.pending) :
          FailsAt(last, k, Raising) =>
             /\ last.threw
             /\ Len(last.calls) = k
             /\ last.calls[k].threw
             /\ last.calls[k].event = last.pending[k].requestID
             /\ \A j \in 1..(k - 1) : ~last.calls[j].threw
             /\ last.error = [name |-> "ReducerError", origin |-> "reducer"]
             /\ last.result = NoEnvelope
             /\ last.stored = << >>
             /\ snapshots[last.entityID] = last.before

\* C8 witness: with a snapshot stored, the write path folded one event and
\* the reducer of the second raised
C8_Witness ==
    /\ last.op = "calculate"
    /\ last.before # NoEnvelope
    /\ Len(last.pending) = 2
    /\ FailsAt(last, 2, Raising)
    /\ last.threw
    /\ ~last.calls[1].threw

\* C9: incremental replay equals full replay.  After appends with
\* non-decreasing createdAt (ties allowed) and calculateAndStoreEntitySnapshot
\* calls each given exactly the events recorded since the previous call, a
\* fetchEntitySnapshot without `at` returns the left fold from null of every
\* event the provider holds for the entity.
C9_IncrementalEqualsFull ==
    ( /\ last.op = "fetch"
      /\ ~last.bounded
      /\ exact[last.entityID]
      /\ AllWorking(KnownTo(last)) )
    => /\ ~last.threw
       /\ ValueOf(last.result) = LeftFold(KnownTo(last), Null)
       /\ Len(KnownTo(last)) >= 1 => last.result # NoEnvelope

\* registered event types whose class or method does not resolve
Unresolvable ==
    {t \in DOMAIN reducers :
        reducers[t].class = "undefined" \/ reducers[t].methodName \notin CartMethods}

\* C10: unresolvable reducer.  When the reducer registered for an event does
\* not resolve to a callable, the call fails with an error raised by the
\* registry lookup that is not the missing-reducer error, no reducer result
\* is produced for the event, and nothing is persisted.
C10_UnresolvableReducer ==
    last.op \in {"fetch", "calculate"} =>
       \A k \in 1..Len(last.pending) :
          FailsAt(last, k, Unresolvable) =>
             /\ last.threw
             /\ last.error.origin = "reducerForEvent"
             /\ last.error.name # "InvalidParameterError"
             /\ Len(last.calls) = k
             /\ last.calls[k].threw
             /\ last.result = NoEnvelope
             /\ last.stored = << >>
             /\ snapshots[last.entityID] = last.before

\* the entity's events recorded after the cursor of the snapshot a call loaded
AfterCursorOf(call) ==
    SelectSeq(KnownTo(call), LAMBDA e : e.createdAt > lastVisitedTime(call.base))

\* C12: the `at` bound only selects the base snapshot.  A fetchEntitySnapshot
\* with `at` loads the stored snapshot if it was created at or before `at`
\* (none otherwise), and folds every event of the entity recorded after that
\* snapshot's cursor (after the epoch when there is none), events created
\* later than `at` included.
C12_AtSelectsBaseOnly ==
    (last.op = "fetch" /\ last.bounded) =>
       /\ last.base = IF last.before # NoEnvelope /\ last.before.createdAt <= last.at
                      THEN last.before ELSE NoEnvelope
       /\ last.pending = AfterCursorOf(last)
       /\ ~last.threw => Len(last.calls) = Len(last.pending)

\* a bounded fetch that loaded a snapshot and folded an event later than `at`
C12_Witness ==
    /\ last.op = "fetch" /\ last.bounded /\ ~last.threw
    /\ last.base # NoEnvelope
    /\ \E k \in 1..Len(last.pending) : last.pending[k].createdAt > last.at
    /\ Len(last.calls) = Len(last.pending)

\* the envelope is a snapshot of the entity of the event, taken at the event
Enveloping(envelope, eventEnvelope) ==
    /\ envelope # NoEnvelope
    /\ envelope.kind = "snapshot"
    /\ envelope.typeName = EntityTypeName
    /\ envelope.typeName = eventEnvelope.entityTypeName
    /\ envelope.entityTypeName = eventEnvelope.entityTypeName
    /\ envelope.entityID = eventEnvelope.entityID
    /\ envelope.requestID = eventEnvelope.requestID
    /\ envelope.snapshottedEventCreatedAt = eventEnvelope.createdAt

\* C13: snapshot envelope invariant.  Every envelope produced by folding at
\* least one event, returned by either operation or stored, has kind
\* snapshot, the entity type name as typeName, entityID, entityTypeName and
\* requestID of the last folded event, and that event's createdAt as
\* snapshottedEventCreatedAt.
C13_SnapshotEnvelope ==
    (last.op \in {"fetch", "calculate"} /\ ~last.threw /\ Len(last.pending) >= 1) =>
       /\ Enveloping(last.result, last.pending[Len(last.pending)])
       /\ \A k \in 1..Len(last.stored) :
             Enveloping(last.stored[k], last.pending[Len(last.pending)])
       /\ last.op = "calculate" =>
             Enveloping(snapshots[last.entityID], last.pending[Len(last.pending)])

\* a call folded two events of different types and its envelope was stored
C13_Witness ==
    /\ last.op = "calculate" /\ ~last.threw /\ Len(last.pending) = 2
    /\ last.pending[1].typeName # last.pending[2].typeName
    /\ last.stored = <<last.result>>
    /\ last.result.requestID = last.pending[2].requestID

\* the entity value the fold of a call yielded, null for none
Yielded(call) ==
    IF Len(call.calls) = 0 THEN Null ELSE call.calls[Len(call.calls)].returned

\* C14: calculateAndStoreEntitySnapshot writes only when the fold yields a
\* new entity value.  When the fold yields none (empty list, or reducers
\* that produce no value) the call returns the prior latest snapshot and
\* makes no store call; otherwise it persists the new snapshot and returns
\* it.
C14_WritesOnlyNewValue ==
    (last.op = "calculate" /\ ~last.threw) =>
       IF Yielded(last) = Null
       THEN /\ last.result = last.before
            /\ last.stored = << >>
            /\ snapshots[last.entityID] = last.before
       ELSE /\ last.stored = <<last.result>>
            /\ ValueOf(last.result) = Yielded(last)
            /\ snapshots[last.entityID] = last.result

\* C15: fetchEntitySnapshot with nothing pending.  When the provider returns
\* no events after the cursor, the call invokes no reducer and returns
\* exactly the envelope it loaded, or null when it loaded none; for an
\* entity with no events and no snapshot it returns null.
C15_NothingPending ==
    (last.op = "fetch" /\ AfterCursorOf(last) = << >>) =>
       /\ last.pending = << >>
       /\ last.calls = << >>
       /\ ~last.threw
       /\ last.result = last.base
       /\ ~last.bounded => last.result = last.before
       /\ (KnownTo(last) = << >> /\ last.before = NoEnvelope) => last.result = NoEnvelope

\* a fetch found a stored snapshot and no event after its cursor
C15_Witness ==
    /\ last.op = "fetch"
    /\ AfterCursorOf(last) = << >>
    /\ Len(KnownTo(last)) >= 1
    /\ last.base # NoEnvelope
    /\ last.result = last.base

(* ---------------------- claims on concurrent calls --------------------- *)
\* a caller's call has returned a result
Returns(proc) == proc.pc = "done" /\ ~proc.threw

\* a calculateAndStoreEntitySnapshot call whose store resolved
Wrote(proc) == proc.pc = "done" /\ proc.op = "calculate" /\ ~proc.threw /\ proc.stores = 1

\* C11: same-entity write race.  The core provides no mutual exclusion: a
\* store that resolves replaces the entity's stored snapshot by the caller's
\* envelope whatever is stored by then, so of two calls that loaded the same
\* prior snapshot the last writer's snapshot stays, without the events the
\* other call folded, and the stored cursor can decrease.
C11_LastWriterWins ==
    [][ \A p \in Callers :
          (procs[p].pc = "store" /\ procs'[p].pc = "done" /\ ~procs'[p].threw) =>
             /\ snapshots'[procs[p].entityID] = procs[p].toStore[1]
             /\ procs'[p].result = procs[p].toStore[1] ]_vars

\* both calls loaded the same prior snapshot, both stored, and the stored
\* snapshot is the one of the call with the older events: the other call's
\* events are lost and the stored cursor went back
C11_Witness ==
    \E p, q \in Callers :
        /\ p # q /\ Wrote(procs[p]) /\ Wrote(procs[q])
        /\ procs[p].entityID = procs[q].entityID
        /\ procs[p].concurrent /\ procs[q].concurrent
        /\ procs[p].base = procs[q].base
        /\ snapshots[procs[p].entityID] = procs[p].result
        /\ procs[q].pending # << >>
        /\ \A k \in 1..Len(procs[q].pending), j \in 1..Len(procs[p].pending) :
              procs[q].pending[k].requestID # procs[p].pending[j].requestID
        /\ procs[p].result.snapshottedEventCreatedAt
              < procs[q].result.snapshottedEventCreatedAt

\* C16: provider failures pass through without retry.  When the snapshot
\* load or the event load fails, the call raises that error, invokes no
\* reducer and makes no store call; when the store fails,
\* calculateAndStoreEntitySnapshot raises that error and returns no
\* snapshot; each provider operation is called at most once per public call.
C16_ProviderFailure ==
    \A p \in Callers :
        procs[p] # Idle =>
           /\ procs[p].snapshotLoads <= 1
           /\ procs[p].eventLoads <= 1
           /\ procs[p].stores <= 1
           /\ Len(procs[p].toStore) <= 1
           /\ procs[p].op = "fetch" => procs[p].stores = 0 /\ procs[p].toStore = << >>
           /\ procs[p].op = "calculate" => procs[p].eventLoads = 0
           /\ procs[p].rejected # "none" =>
                 /\ procs[p].pc = "done"
                 /\ procs[p].threw
                 /\ procs[p].error = [name |-> "ProviderError", origin |-> procs[p].rejected]
                 /\ procs[p].result = NoEnvelope
           /\ procs[p].rejected \in {"latestEntitySnapshot", "forEntitySince"} =>
                 /\ procs[p].calls = << >>
                 /\ procs[p].toStore = << >>
                 /\ procs[p].stores = 0
           /\ procs[p].rejected = "store" =>
                 /\ procs[p].op = "calculate"
                 /\ Len(procs[p].calls) = Len(procs[p].pending)

\* one call failed on its event load after its snapshot load resolved, the
\* other on its store after the fold
C16_Witness ==
    \E p, q \in Callers :
        /\ procs[p] # Idle /\ procs[q] # Idle
        /\ procs[p].rejected = "forEntitySince" /\ procs[p].snapshotLoads = 1
        /\ procs[q].rejected = "store" /\ Len(procs[q].calls) >= 1

\* the provider holding only the entity's own snapshot
Only(entityID, snapshotEnvelope) ==
    [id \in Entities |-> IF id = entityID THEN snapshotEnvelope ELSE NoEnvelope]

\* what the call produces when it runs alone on the entity's own events and
\* snapshot
Alone(proc) ==
    IF proc.op = "fetch"
    THEN fetchEntitySnapshot(Only(proc.entityID, proc.startSnapshot),
                             EventsOf(SubSeq(events, 1, proc.loadLog), proc.entityID),
                             proc.entityID, proc.at, proc.foldTime)
    ELSE calculateAndStoreEntitySnapshot(Only(proc.entityID, proc.startSnapshot),
                                         proc.entityID, proc.pending, proc.foldTime)

SameOutcome(proc, alone, stored) ==
    /\ proc.threw = alone.threw
    /\ proc.error = alone.error
    /\ proc.result = alone.result
    /\ proc.calls = alone.calls
    /\ stored = alone.store[proc.entityID]

\* C17: independence across entities.  A call that ran while the only other
\* call was on a different entity returns what it returns when run alone
\* on its entity's events and snapshot, and leaves its entity's stored
\* snapshot as it does when run alone; an entity no call was made on has no
\* stored snapshot.
C17_Independence ==
    /\ \A p, q \in Callers :
          ( /\ p # q
            /\ procs[p].pc = "done" /\ procs[p].rejected = "none"
            /\ procs[q] # Idle => procs[q].entityID # procs[p].entityID )
          => SameOutcome(procs[p], Alone(procs[p]), snapshots[procs[p].entityID])
    /\ \A id \in Entities :
          (\A p \in Callers : procs[p] # Idle => procs[p].entityID # id)
          => snapshots[id] = NoEnvelope

\* a call on one entity loaded, folded and stored between the snapshot load
\* and the store of a call on the other entity
C17_Witness ==
    \E p, q \in Callers :
        /\ Wrote(procs[q]) /\ procs[q].concurrent
        /\ procs[p].pc = "store"
        /\ procs[p].entityID # procs[q].entityID
        /\ procs[p].foldTime < procs[q].foldTime

\* C18: termination.  Given that every provider call settles, every call of
\* fetchEntitySnapshot and calculateAndStoreEntitySnapshot returns or
\* raises; no provider call is repeated, and the fold makes one reducer
\* step per pending event (up to the event whose reducer fails).
C18_Termination ==
    /\ \A p \in Callers : (procs[p].pc # "idle") ~> (procs[p].pc = "done")
    /\ [](\A p \in Callers :
            procs[p].pc = "done" =>
               /\ procs[p].snapshotLoads + procs[p].eventLoads + procs[p].stores <= 2
               /\ Len(procs[p].calls) <= Len(procs[p].pending)
               /\ ~procs[p].threw => Len(procs[p].calls) = Len(procs[p].pending)
               /\ \A k \in 1..Len(procs[p].calls) :
                     procs[p].calls[k].event = procs[p].pending[k].requestID)

\* a call returned after one reducer step for each of its two pending events
C18_Witness ==
    \E p \in Callers :
        /\ Returns(procs[p])
        /\ Len(procs[p].pending) = 2
        /\ Len(procs[p].calls) = 2

\* C19: a calculateAndStoreEntitySnapshot call that is given at least one
\* pending event and raises no error makes exactly one store call, after
\* the whole list has been folded, with the envelope it returns; also when
\* the reducer returned null as the entity value.
C19_OneStoreAfterFold ==
    \A p \in Callers :
        (procs[p] # Idle /\ procs[p].op = "calculate" /\ Len(procs[p].pending) >= 1) =>
           /\ procs[p].pc = "loadSnapshot" => procs[p].toStore = << >> /\ procs[p].stores = 0
           /\ procs[p].pc = "store" =>
                 /\ Len(procs[p].toStore) = 1 /\ procs[p].stores = 0
                 /\ Len(procs[p].calls) = Len(procs[p].pending)
           /\ Returns(procs[p]) =>
                 /\ procs[p].stores = 1
                 /\ procs[p].toStore = <<procs[p].result>>
                 /\ Len(procs[p].calls) = Len(procs[p].pending)
                 /\ ValueOf(procs[p].result) = Yielded(procs[p])

\* a call whose last reducer returned null stored the envelope it returned
C19_Witness ==
    \E p \in Callers :
        /\ Wrote(procs[p])
        /\ Len(procs[p].pending) = 2
        /\ Yielded(procs[p]) = Null
        /\ procs[p].result # NoEnvelope /\ procs[p].result.value = Null
        /\ snapshots[procs[p].entityID] = procs[p].result

\* the entity's events in the provider when the call's event load resolved
AtLoad(proc) == EventsOf(SubSeq(events, 1, proc.loadLog), proc.entityID)

\* C20: a fetchEntitySnapshot that runs concurrently with a
\* calculateAndStoreEntitySnapshot on the same entity, the writer being
\* given exactly the events recorded since the stored cursor, returns the
\* left fold from null of all the events that were in the provider when it
\* loaded its events.
C20_ConcurrentFetchComplete ==
    \A p, q \in Callers :
        ( /\ p # q
          /\ Returns(procs[p]) /\ procs[p].op = "fetch" /\ procs[p].concurrent
          /\ procs[q] # Idle /\ procs[q].op = "calculate" /\ procs[q].concurrent
          /\ procs[q].entityID = procs[p].entityID
          /\ procs[q].sinceCursor
          /\ AllWorking(AtLoad(procs[p])) )
        => ValueOf(procs[p].result) = LeftFold(AtLoad(procs[p]), Null)

====
